---- MODULE Spec2Model ----
(***************************************************************************)
(* Model of repetedwords.py: a word counter that reads a text file,        *)
(* normalises and counts its words, and prints a ranked report.            *)
(*                                                                         *)
(* A Python str is a sequence of code points (ASCII range).  An optional   *)
(* value is a sequence of length 0 (None) or 1 (the value).  A Counter or  *)
(* dict is the sequence of its items in insertion order.                   *)
(***************************************************************************)
EXTENDS Integers, Sequences, FiniteSets, TLC

\* Largest number of chunks an input file is assembled from.
MaxChunks == 3

None == <<>>
Some(x) == <<x>>

-----------------------------------------------------------------------------
(* str primitives, on code points *)

\* str.isspace / the class \s (ASCII): \t \n \v \f \r, FS GS RS US, space
IsSpace(c) == (9 <= c /\ c <= 13) \/ (28 <= c /\ c <= 32)

\* the class \w (ASCII): digits, letters, underscore
IsWordChar(c) ==
    \/ (48 <= c /\ c <= 57) \/ (65 <= c /\ c <= 90)
    \/ (97 <= c /\ c <= 122) \/ c = 95

LowerChar(c) == IF 65 <= c /\ c <= 90 THEN c + 32 ELSE c

\* str.lower()
lower(s) == [i \in 1..Len(s) |-> LowerChar(s[i])]

\* str.strip(): drop leading and trailing whitespace
strip(s) ==
    LET keep == {i \in 1..Len(s) : ~IsSpace(s[i])}
        lo == CHOOSE i \in keep : \A j \in keep : i <= j
        hi == CHOOSE i \in keep : \A j \in keep : j <= i
    IN IF keep = {} THEN <<>> ELSE SubSeq(s, lo, hi)

\* re.sub(r'[^\w\s]', '', s): delete what is neither a word character nor whitespace
re_sub(s) == SelectSeq(s, LAMBDA c : IsWordChar(c) \/ IsSpace(c))

\* str.split() with no argument: the maximal runs of non-whitespace
RECURSIVE split(_)
split(s) ==
    IF s = <<>> THEN <<>>
    ELSE IF IsSpace(s[1]) THEN split(Tail(s))
    ELSE LET stops == {i \in 1..Len(s) : IsSpace(s[i])}
             n == IF stops = {} THEN Len(s)
                  ELSE (CHOOSE i \in stops : \A j \in stops : i <= j) - 1
         IN <<SubSeq(s, 1, n)>> \o split(SubSeq(s, n + 1, Len(s)))

\* str < str: lexicographic on code points, a proper prefix comes first
StrLess(a, b) ==
    \E i \in 1..Len(b) :
        /\ i <= Len(a) + 1
        /\ \A j \in 1..(i - 1) : a[j] = b[j]
        /\ (i <= Len(a) => a[i] < b[i])

RECURSIVE DigitsValue(_)
DigitsValue(d) ==
    IF d = <<>> THEN 0
    ELSE DigitsValue(SubSeq(d, 1, Len(d) - 1)) * 10 + (d[Len(d)] - 48)

\* int(s): optional surrounding whitespace, optional sign, decimal digits with
\* single underscores allowed between digits; None stands for ValueError
int(s) ==
    LET t == strip(s)
        signed == t # <<>> /\ t[1] \in {43, 45}
        body == IF signed THEN Tail(t) ELSE t
        IsDigit(c) == 48 <= c /\ c <= 57
        valid == /\ body # <<>>
                 /\ \A i \in 1..Len(body) :
                        \/ IsDigit(body[i])
                        \/ /\ body[i] = 95
                           /\ 1 < i /\ i < Len(body)
                           /\ IsDigit(body[i - 1]) /\ IsDigit(body[i + 1])
        mag == DigitsValue(SelectSeq(body, IsDigit))
    IN IF ~valid THEN None
       ELSE Some(IF signed /\ t[1] = 45 THEN 0 - mag ELSE mag)

\* x in list
Contains(list, x) == \E i \in 1..Len(list) : list[i] = x

\* list.index(x), 1-based: the first position holding x
IndexOf(list, x) ==
    CHOOSE i \in 1..Len(list) : list[i] = x /\ \A j \in 1..(i - 1) : list[j] # x

\* seq[:n] with Python's meaning of a negative n
SliceTo(seq, n) ==
    IF n >= 0 THEN SubSeq(seq, 1, IF n < Len(seq) THEN n ELSE Len(seq))
    ELSE SubSeq(seq, 1, Len(seq) + n)

-----------------------------------------------------------------------------
(* command-line words *)

ArgProg == <<112, 114, 111, 103>>                                   \* prog
ArgFile == <<102, 46, 116, 120, 116>>                               \* f.txt
OptCaseSensitive ==
    <<45, 45, 99, 97, 115, 101, 45, 115, 101, 110, 115, 105, 116, 105, 118, 101>>
OptIgnoreCommon ==
    <<45, 45, 105, 103, 110, 111, 114, 101, 45, 99, 111, 109, 109, 111, 110>>
OptTop == <<45, 45, 116, 111, 112>>                                 \* --top
OptMinCount == <<45, 45, 109, 105, 110, 45, 99, 111, 117, 110, 116>>  \* --min-count

\* values tried after --top: 0, -1, 1, +2, 5, abc
TopValues == {<<48>>, <<45, 49>>, <<49>>, <<43, 50>>, <<53>>, <<97, 98, 99>>}
\* values tried after --min-count: 2, 1x
MinCountValues == {<<50>>, <<49, 120>>}

\* sys.argv of the runs explored
ArgvSet ==
    LET flags == {<<>>, <<OptCaseSensitive>>, <<OptIgnoreCommon>>,
                  <<OptCaseSensitive, OptIgnoreCommon>>}
        tops == {<<>>} \cup {<<OptTop, v>> : v \in TopValues}
        mins == {<<>>} \cup {<<OptMinCount, v>> : v \in MinCountValues}
    IN {<<ArgProg>>}
       \cup {<<ArgProg, ArgFile>> \o f \o t \o m : f \in flags, t \in tops, m \in mins}
       \cup {<<ArgProg, ArgFile, OptTop>>,
             <<ArgProg, ArgFile, OptMinCount>>,
             <<ArgProg, ArgFile, OptIgnoreCommon, OptMinCount, <<50>>, OptTop>>,
             <<ArgProg, ArgFile, OptTop, <<49>>, OptTop, <<97, 98, 99>>>>,
             <<ArgProg, ArgFile, OptTop, OptMinCount, <<50>>>>}

-----------------------------------------------------------------------------
(* input files *)

Chunks ==
    { <<84, 111, 32>>,           \* "To "
      <<111, 120, 13, 10>>,      \* "ox\r\n"
      <<79, 120, 44>>,           \* "Ox,"
      <<32, 46, 46, 46, 10>> }   \* " ...\n"

RECURSIVE Texts(_)
Texts(n) ==
    IF n = 0 THEN {<<>>}
    ELSE Texts(n - 1) \cup {t \o c : t \in Texts(n - 1), c \in Chunks}

\* "The cat sat on the mat. The cat was happy.\n"
ScenarioText ==
    <<84, 104, 101, 32, 99, 97, 116, 32, 115, 97, 116, 32, 111, 110, 32,
      116, 104, 101, 32, 109, 97, 116, 46, 32, 84, 104, 101, 32, 99, 97, 116,
      32, 119, 97, 115, 32, 104, 97, 112, 112, 121, 46, 10>>

-----------------------------------------------------------------------------
(* count_words_from_file: constants and pure steps *)

common_words ==
    { <<116, 104, 101>>,  \* the
      <<97>>,  \* a
      <<97, 110>>,  \* an
      <<97, 110, 100>>,  \* and
      <<111, 114>>,  \* or
      <<98, 117, 116>>,  \* but
      <<105, 110>>,  \* in
      <<111, 110>>,  \* on
      <<97, 116>>,  \* at
      <<116, 111>>,  \* to
      <<102, 111, 114>>,  \* for
      <<111, 102>>,  \* of
      <<119, 105, 116, 104>>,  \* with
      <<98, 121>>,  \* by
      <<105, 115>>,  \* is
      <<97, 114, 101>>,  \* are
      <<119, 97, 115>>,  \* was
      <<119, 101, 114, 101>>,  \* were
      <<98, 101>>,  \* be
      <<98, 101, 101, 110>>,  \* been
      <<98, 101, 105, 110, 103>>,  \* being
      <<104, 97, 118, 101>>,  \* have
      <<104, 97, 115>>,  \* has
      <<104, 97, 100>>,  \* had
      <<100, 111>>,  \* do
      <<100, 111, 101, 115>>,  \* does
      <<100, 105, 100>>,  \* did
      <<119, 105, 108, 108>>,  \* will
      <<119, 111, 117, 108, 100>>,  \* would
      <<99, 111, 117, 108, 100>>,  \* could
      <<115, 104, 111, 117, 108, 100>>,  \* should
      <<109, 97, 121>>,  \* may
      <<109, 105, 103, 104, 116>>,  \* might
      <<109, 117, 115, 116>>,  \* must
      <<116, 104, 105, 115>>,  \* this
      <<116, 104, 97, 116>>,  \* that
      <<116, 104, 101, 115, 101>>,  \* these
      <<116, 104, 111, 115, 101>>,  \* those
      <<105>>,  \* i
      <<121, 111, 117>>,  \* you
      <<104, 101>>,  \* he
      <<115, 104, 101>>,  \* she
      <<105, 116>>,  \* it
      <<119, 101>>,  \* we
      <<116, 104, 101, 121>>,  \* they
      <<109, 101>>,  \* me
      <<104, 105, 109>>,  \* him
      <<104, 101, 114>>,  \* her
      <<117, 115>>,  \* us
      <<116, 104, 101, 109>>,  \* them
      <<109, 121>>,  \* my
      <<121, 111, 117, 114>>,  \* your
      <<104, 105, 115>>,  \* his
      <<105, 116, 115>>,  \* its
      <<111, 117, 114>>,  \* our
      <<116, 104, 101, 105, 114>> }  \* their

\* clean_word with only the first unwanted character removed (re.sub with count=1)
clean_word_first_only(word) ==
    LET t == strip(lower(word))
        bad == {i \in 1..Len(t) : ~(IsWordChar(t[i]) \/ IsSpace(t[i]))}
        b == CHOOSE i \in bad : \A j \in bad : i <= j
        cleaned == IF bad = {} THEN t ELSE SubSeq(t, 1, b - 1) \o SubSeq(t, b + 1, Len(t))
    IN IF cleaned # <<>> THEN Some(cleaned) ELSE None

clean_word(word) ==
    LET cleaned == re_sub(strip(lower(word)))
    IN IF cleaned # <<>> THEN Some(cleaned) ELSE None

\* the value assigned to cleaned_word for one word of the line
Normalize(word, cs) == IF cs THEN Some(strip(word)) ELSE clean_word(word)

\* "if not cleaned_word": None or the empty string
IsFalsy(cw) == cw = None \/ cw[1] = <<>>

\* the stop-word test without the lower() call
IsCommon_no_fold(w) == w \in common_words

\* cleaned_word.lower() in common_words
IsCommon(w) == lower(w) \in common_words

\* word_counts[w] += 2
Increment_by_two(wc, w) ==
    IF \E i \in 1..Len(wc) : wc[i].word = w
    THEN [i \in 1..Len(wc) |->
            IF wc[i].word = w THEN [word |-> w, count |-> wc[i].count + 2] ELSE wc[i]]
    ELSE Append(wc, [word |-> w, count |-> 2])

\* word_counts[w] += 1 on a Counter: a missing key counts as 0
Increment(wc, w) ==
    IF \E i \in 1..Len(wc) : wc[i].word = w
    THEN [i \in 1..Len(wc) |->
            IF wc[i].word = w THEN [word |-> w, count |-> wc[i].count + 1] ELSE wc[i]]
    ELSE Append(wc, [word |-> w, count |-> 1])

\* the Counter after one word of a line has gone through the loop body
CountWord(wc, word, cs, ic) ==
    LET cw == Normalize(word, cs)
    IN IF IsFalsy(cw) THEN wc
       ELSE IF ic /\ IsCommon(cw[1]) THEN wc
       ELSE Increment(wc, cw[1])

\* one iteration of "for line in file" in text mode with universal newlines:
\* the next line, its terminator (\n, \r or \r\n) read as \n, and what follows
NextLine(text) ==
    LET ends == {i \in 1..Len(text) : text[i] \in {10, 13}}
        e == CHOOSE i \in ends : \A j \in ends : i <= j
        crlf == text[e] = 13 /\ e < Len(text) /\ text[e + 1] = 10
        after == IF crlf THEN e + 2 ELSE e + 1
    IN IF ends = {} THEN [line |-> text, rest |-> <<>>]
       ELSE [line |-> Append(SubSeq(text, 1, e - 1), 10),
             rest |-> SubSeq(text, after, Len(text))]

-----------------------------------------------------------------------------
(* display_results: pure steps *)

\* the filter with count > min_count
FilterMin_strict(wc, m) == SelectSeq(wc, LAMBDA x : x.count > m)

\* {word: count for word, count in word_counts.items() if count >= min_count}
FilterMin(wc, m) == SelectSeq(wc, LAMBDA x : x.count >= m)

\* a sort key of -count alone
KeyLess_count_only(x, y) == (0 - x.count) < (0 - y.count)

\* (-x[1], x[0]) < (-y[1], y[0])
KeyLess(x, y) ==
    \/ (0 - x.count) < (0 - y.count)
    \/ x.count = y.count /\ StrLess(x.word, y.word)

\* sorted(items, key=...): stable, so an item goes after the items not greater than it
RECURSIVE sorted(_)
sorted(items) ==
    IF items = <<>> THEN <<>>
    ELSE LET s == sorted(SubSeq(items, 1, Len(items) - 1))
             x == items[Len(items)]
             after == {i \in 1..Len(s) : KeyLess(x, s[i])}
             p == IF after = {} THEN Len(s) + 1
                  ELSE CHOOSE i \in after : \A j \in after : i <= j
         IN SubSeq(s, 1, p - 1) \o <<x>> \o SubSeq(s, p, Len(s))

RECURSIVE SumCounts(_)
\* sum(word_counts.values())
SumCounts(wc) == IF wc = <<>> THEN 0 ELSE wc[1].count + SumCounts(Tail(wc))

\* the lines printed once the table is known, with the total taken over the rows shown
Report_total_of_rows(wc, rows) ==
    <<[kind |-> "header", word |-> <<>>, n |-> Len(rows)]>>
    \o [i \in 1..Len(rows) |-> [kind |-> "row", word |-> rows[i].word, n |-> rows[i].count]]
    \o <<[kind |-> "unique", word |-> <<>>, n |-> Len(wc)],
         [kind |-> "total", word |-> <<>>, n |-> SumCounts(rows)]>>

\* the lines printed once the table is known: header, one row per entry, the two totals
Report(wc, rows) ==
    <<[kind |-> "header", word |-> <<>>, n |-> Len(rows)]>>
    \o [i \in 1..Len(rows) |-> [kind |-> "row", word |-> rows[i].word, n |-> rows[i].count]]
    \o <<[kind |-> "unique", word |-> <<>>, n |-> Len(wc)],
         [kind |-> "total", word |-> <<>>, n |-> SumCounts(wc)]>>

\* a printed line that carries no word and no number
Line(k) == [kind |-> k, word |-> <<>>, n |-> 0]

-----------------------------------------------------------------------------
(* the program *)

VARIABLES
    argv,             \* sys.argv
    file,             \* the decoded text of the file at file_path
    pc,               \* where the run is
    case_sensitive, ignore_common, top_n, min_count,   \* locals of main
    opened,           \* open(file_path) has been called
    rest,             \* the part of the file not yet read
    words,            \* the words of the current line not yet processed
    cleaned_word,     \* local of count_words_from_file
    word_counts,      \* local of count_words_from_file
    returned, ret,    \* count_words_from_file has returned, and its return value
    filtered_counts, sorted_words,   \* locals of display_results (sorted_words as of line 110)
    displayed,        \* sorted_words as printed, after the top_n slice
    out               \* the lines printed so far

vars == <<argv, file, pc, case_sensitive, ignore_common, top_n, min_count, opened,
          rest, words, cleaned_word, word_counts, returned, ret,
          filtered_counts, sorted_words, displayed, out>>

mainLocals == <<case_sensitive, ignore_common, top_n, min_count>>
countLocals == <<opened, rest, words, cleaned_word, word_counts, returned, ret>>
displayLocals == <<filtered_counts, sorted_words, displayed>>

Start ==
    /\ pc = "main"
    /\ case_sensitive = FALSE /\ ignore_common = FALSE
    /\ top_n = None /\ min_count = 1
    /\ opened = FALSE /\ rest = <<>> /\ words = <<>>
    /\ cleaned_word = None /\ word_counts = <<>>
    /\ returned = FALSE /\ ret = None
    /\ filtered_counts = <<>> /\ sorted_words = <<>> /\ displayed = <<>>
    /\ out = <<>>

Init == argv \in ArgvSet /\ file \in Texts(MaxChunks) /\ Start

InitScenario == argv \in ArgvSet /\ file = ScenarioText /\ Start

\* main, no argument given: print the usage text and return
Usage ==
    /\ pc = "main"
    /\ Len(argv) < 2
    /\ out' = Append(out, Line("usage"))
    /\ pc' = "exit"
    /\ UNCHANGED <<argv, file, mainLocals, countLocals, displayLocals>>

\* main: the two flags
ParseFlags ==
    /\ pc = "main"
    /\ Len(argv) >= 2
    /\ case_sensitive' = Contains(argv, OptCaseSensitive)
    /\ ignore_common' = Contains(argv, OptIgnoreCommon)
    /\ pc' = "top"
    /\ UNCHANGED <<argv, file, top_n, min_count, countLocals, displayLocals, out>>

\* main: --top
ParseTop ==
    /\ pc = "top"
    /\ LET present == Contains(argv, OptTop)
           i == IndexOf(argv, OptTop)
           hasValue == present /\ i + 1 <= Len(argv)
           v == int(argv[i + 1])
       IN IF hasValue /\ v = None
          THEN /\ out' = Append(out, Line("param_error"))
               /\ pc' = "exit"
               /\ UNCHANGED top_n
          ELSE /\ top_n' = IF hasValue THEN v ELSE None
               /\ pc' = "min"
               /\ UNCHANGED out
    /\ UNCHANGED <<argv, file, case_sensitive, ignore_common, min_count,
                   countLocals, displayLocals>>

\* --min-count with the error reported but the run carried on with the default
ParseMinCount_carries_on ==
    /\ pc = "min"
    /\ LET present == Contains(argv, OptMinCount)
           i == IndexOf(argv, OptMinCount)
           hasValue == present /\ i + 1 <= Len(argv)
           v == int(argv[i + 1])
       IN IF hasValue /\ v = None
          THEN /\ out' = Append(out, Line("param_error"))
               /\ pc' = "banner"
               /\ UNCHANGED min_count
          ELSE /\ min_count' = IF hasValue THEN v[1] ELSE 1
               /\ pc' = "banner"
               /\ UNCHANGED out
    /\ UNCHANGED <<argv, file, case_sensitive, ignore_common, top_n,
                   countLocals, displayLocals>>

\* main: --min-count
ParseMinCount ==
    /\ pc = "min"
    /\ LET present == Contains(argv, OptMinCount)
           i == IndexOf(argv, OptMinCount)
           hasValue == present /\ i + 1 <= Len(argv)
           v == int(argv[i + 1])
       IN IF hasValue /\ v = None
          THEN /\ out' = Append(out, Line("param_error"))
               /\ pc' = "exit"
               /\ UNCHANGED min_count
          ELSE /\ min_count' = IF hasValue THEN v[1] ELSE 1
               /\ pc' = "banner"
               /\ UNCHANGED out
    /\ UNCHANGED <<argv, file, case_sensitive, ignore_common, top_n,
                   countLocals, displayLocals>>

\* main: the three "Analyzing ..." lines, then the call of count_words_from_file
\* up to word_counts = Counter()
Banner ==
    /\ pc = "banner"
    /\ out' = Append(out, Line("banner"))
    /\ word_counts' = <<>>
    /\ pc' = "open"
    /\ UNCHANGED <<argv, file, mainLocals, opened, rest, words, cleaned_word,
                   returned, ret, displayLocals>>

\* an except branch that hands back what was counted so far
HandleError_returns_counts(kind) ==
    /\ out' = Append(out, Line(kind))
    /\ ret' = Some(word_counts)
    /\ returned' = TRUE
    /\ pc' = "returned"

\* an except branch of count_words_from_file: print the message, return None
HandleError(kind) ==
    /\ out' = Append(out, Line(kind))
    /\ ret' = None
    /\ returned' = TRUE
    /\ pc' = "returned"

\* open() succeeds
OpenFile ==
    /\ pc = "open"
    /\ opened' = TRUE
    /\ rest' = file
    /\ pc' = "read"
    /\ UNCHANGED <<argv, file, mainLocals, words, cleaned_word, word_counts,
                   returned, ret, displayLocals, out>>

\* open() raises FileNotFoundError
OpenNotFound ==
    /\ pc = "open"
    /\ opened' = TRUE
    /\ HandleError("error_not_found")
    /\ UNCHANGED <<argv, file, mainLocals, rest, words, cleaned_word, word_counts,
                   displayLocals>>

\* open() raises PermissionError
OpenDenied ==
    /\ pc = "open"
    /\ opened' = TRUE
    /\ HandleError("error_permission")
    /\ UNCHANGED <<argv, file, mainLocals, rest, words, cleaned_word, word_counts,
                   displayLocals>>

\* the next line is read and split into words
ReadLine ==
    /\ pc = "read"
    /\ rest # <<>>
    /\ LET nl == NextLine(rest)
           ws == split(nl.line)
       IN /\ rest' = nl.rest
          /\ words' = ws
          /\ pc' = IF ws = <<>> THEN "read" ELSE "words"
    /\ UNCHANGED <<argv, file, mainLocals, opened, cleaned_word, word_counts,
                   returned, ret, displayLocals, out>>

\* reading the next line raises UnicodeDecodeError
ReadDecodeError ==
    /\ pc = "read"
    /\ HandleError("error_decode")
    /\ UNCHANGED <<argv, file, mainLocals, opened, rest, words, cleaned_word,
                   word_counts, displayLocals>>

\* reading the next line raises any other exception
ReadOtherError ==
    /\ pc = "read"
    /\ HandleError("error_other")
    /\ UNCHANGED <<argv, file, mainLocals, opened, rest, words, cleaned_word,
                   word_counts, displayLocals>>

\* the body of "for word in words" for the next word
ProcessWord ==
    /\ pc = "words"
    /\ words # <<>>
    /\ cleaned_word' = Normalize(Head(words), case_sensitive)
    /\ word_counts' = CountWord(word_counts, Head(words), case_sensitive, ignore_common)
    /\ words' = Tail(words)
    /\ pc' = IF Tail(words) = <<>> THEN "read" ELSE "words"
    /\ UNCHANGED <<argv, file, mainLocals, opened, rest, returned, ret,
                   displayLocals, out>>

\* end of file: return word_counts
ReturnCounts ==
    /\ pc = "read"
    /\ rest = <<>>
    /\ ret' = Some(word_counts)
    /\ returned' = TRUE
    /\ pc' = "returned"
    /\ UNCHANGED <<argv, file, mainLocals, opened, rest, words, cleaned_word,
                   word_counts, displayLocals, out>>

\* main, word_counts is not None: display_results(word_counts, top_n, min_count)
display_results ==
    /\ pc = "returned"
    /\ ret # None
    /\ LET wc == ret[1]
           f == FilterMin(wc, min_count)
           s == sorted(f)
           d == IF top_n # None /\ top_n[1] # 0 THEN SliceTo(s, top_n[1]) ELSE s
       IN IF wc = <<>>
          THEN /\ out' = Append(out, Line("no_words"))
               /\ UNCHANGED displayLocals
          ELSE IF f = <<>>
          THEN /\ out' = Append(out, [kind |-> "none_with_min", word |-> <<>>,
                                      n |-> min_count])
               /\ filtered_counts' = f
               /\ UNCHANGED <<sorted_words, displayed>>
          ELSE /\ filtered_counts' = f
               /\ sorted_words' = s
               /\ displayed' = d
               /\ out' = out \o Report(wc, d)
    /\ pc' = "exit"
    /\ UNCHANGED <<argv, file, mainLocals, countLocals>>

\* main, word_counts is None
Failed ==
    /\ pc = "returned"
    /\ ret = None
    /\ out' = Append(out, Line("failed"))
    /\ pc' = "exit"
    /\ UNCHANGED <<argv, file, mainLocals, countLocals, displayLocals>>

Next ==
    \/ Usage
    \/ ParseFlags
    \/ ParseTop
    \/ ParseMinCount
    \/ Banner
    \/ OpenFile
    \/ OpenNotFound
    \/ OpenDenied
    \/ ReadLine
    \/ ReadDecodeError
    \/ ReadOtherError
    \/ ProcessWord
    \/ ReturnCounts
    \/ display_results
    \/ Failed

Spec == Init /\ [][Next]_vars

SpecScenario == InitScenario /\ [][Next]_vars

-----------------------------------------------------------------------------
(* vocabulary of the properties *)

Printed(k) == \E i \in 1..Len(out) : out[i].kind = k

ReportKinds == {"header", "row", "unique", "total"}
ErrorKinds == {"param_error", "error_not_found", "error_permission", "error_decode",
               "error_other", "failed"}

ReportPrinted == \E i \in 1..Len(out) : out[i].kind \in ReportKinds
ErrorPrinted == \E i \in 1..Len(out) : out[i].kind \in ErrorKinds

\* the rows of the table as printed
RowsPrinted ==
    LET rows == SelectSeq(out, LAMBDA l : l.kind = "row")
    IN [i \in 1..Len(rows) |-> [word |-> rows[i].word, count |-> rows[i].n]]

Items(wc) == {wc[i] : i \in 1..Len(wc)}
Keys(wc) == {wc[i].word : i \in 1..Len(wc)}
CountOf(wc, w) ==
    IF w \in Keys(wc) THEN (CHOOSE x \in Items(wc) : x.word = w).count ELSE 0

\* every word of the file, in order
AllTokens == split(file)

\* the words already through the loop body, while the file is being read or
\* after it was read to its end
Processed == SubSeq(AllTokens, 1, Len(AllTokens) - Len(split(rest)) - Len(words))

\* a word counts: normalisation leaves something, and the stop-word filter lets it through
Survives(tok) ==
    LET cw == Normalize(tok, case_sensitive)
    IN /\ cw # None /\ cw[1] # <<>>
       /\ ~(ignore_common /\ lower(cw[1]) \in common_words)

SurvivorCount(toks) == Cardinality({k \in 1..Len(toks) : Survives(toks[k])})

\* the file was read to its end and a mapping came back
Succeeded == returned /\ ret # None

RECURSIVE CountAll(_, _, _)
CountAll(toks, cs, ic) ==
    IF toks = <<>> THEN <<>>
    ELSE CountWord(CountAll(SubSeq(toks, 1, Len(toks) - 1), cs, ic),
                   toks[Len(toks)], cs, ic)

\* the first n entries; none for n <= 0, all of them for n beyond the length
FirstN(seq, n) ==
    IF n <= 0 THEN <<>> ELSE SubSeq(seq, 1, IF n < Len(seq) THEN n ELSE Len(seq))

\* the option is followed by a word that int() rejects (the option's first occurrence,
\* the one main reads)
BadValue(opt) ==
    /\ Contains(argv, opt)
    /\ IndexOf(argv, opt) < Len(argv)
    /\ int(argv[IndexOf(argv, opt) + 1]) = None

\* the option is the last argument
MissingValue(opt) == Contains(argv, opt) /\ IndexOf(argv, opt) = Len(argv)

-----------------------------------------------------------------------------
(* properties *)

\* C1: whenever the "Total word occurrences" line is printed its value is the sum of
\* all counts of the mapping count_words_from_file returned, which is the number of
\* words of the file dropped neither by normalisation nor by the stop-word filter;
\* the total is over the whole mapping, not the rows shown; and a run that shows a
\* table prints that line.
C1_TotalIsSumOfWholeMapping ==
    /\ \A i \in 1..Len(out) :
          out[i].kind = "total" =>
             /\ Succeeded
             /\ out[i].n = SumCounts(ret[1])
             /\ out[i].n = SurvivorCount(AllTokens)
    /\ (Succeeded => SumCounts(ret[1]) = SurvivorCount(AllTokens))
    /\ (pc = "exit" /\ Succeeded /\ filtered_counts # <<>> => Printed("total"))

\* a report whose table leaves out part of the mapping
C1_Witness ==
    /\ pc = "exit" /\ Printed("total")
    /\ Len(RowsPrinted) < Len(ret[1])
    /\ SumCounts(RowsPrinted) < SumCounts(ret[1])

\* C2: the ranked sequence of display_results holds exactly the entries of the mapping
\* with count >= min_count, each once; of two entries the earlier has the greater
\* count, or the same count and a word that is not greater; and the sequence is the
\* same whatever the order in which the words of the file arrive.
C2_RankedIsFilteredAndOrdered ==
    (pc = "exit" /\ Succeeded) =>
        LET wc == ret[1]
            want == {x \in Items(wc) : x.count >= min_count}
            n == Len(AllTokens)
        IN /\ Items(sorted_words) = want
           /\ Len(sorted_words) = Cardinality(want)
           /\ \A i, j \in 1..Len(sorted_words) :
                 i < j =>
                    LET A == sorted_words[i]
                        B == sorted_words[j]
                    IN \/ A.count > B.count
                       \/ A.count = B.count /\ (A.word = B.word \/ StrLess(A.word, B.word))
           /\ \A p \in Permutations(1..n) :
                 LET toks == [k \in 1..n |-> AllTokens[p[k]]]
                     m == CountAll(toks, case_sensitive, ignore_common)
                 IN /\ Items(m) = Items(wc)
                    /\ sorted(FilterMin(m, min_count)) = sorted_words

\* a ranking of several entries that is not the order the words arrived in
C2_Witness ==
    /\ pc = "exit" /\ Succeeded
    /\ Len(sorted_words) >= 2
    /\ sorted_words # filtered_counts
    /\ \E i \in 1..(Len(sorted_words) - 1) :
          sorted_words[i].count = sorted_words[i + 1].count

\* C3: with top_n given, the entries displayed are the first top_n entries of the
\* ranked sequence: none for top_n <= 0, all of them for top_n beyond their number.
C3_TopNTruncates ==
    (pc = "exit" /\ Succeeded /\ top_n # None) =>
        /\ displayed = FirstN(sorted_words, top_n[1])
        /\ RowsPrinted = displayed

\* C4: a run in which --top or --min-count is followed by a word that is not an
\* integer never opens the file, prints no table, and ends with the parameter error
\* reported, so the file is opened only once both options have been validated.
C4_BadParameterNeverReachesFile ==
    (BadValue(OptTop) \/ BadValue(OptMinCount)) =>
        /\ ~opened
        /\ ~ReportPrinted
        /\ pc \in {"main", "top", "min", "exit"}
        /\ (pc = "exit" => Printed("param_error"))

\* a run that got past --top and ended on the --min-count value
C4_Witness ==
    /\ pc = "exit"
    /\ BadValue(OptMinCount) /\ ~BadValue(OptTop)
    /\ Printed("param_error") /\ ~opened

\* C5: when reading fails, also after lines were counted, count_words_from_file
\* returns None and no table row or summary is printed; no run shows both an error
\* message and a report.
C5_FailureShowsNoReport ==
    /\ (returned /\ (Printed("error_not_found") \/ Printed("error_permission")
                      \/ Printed("error_decode") \/ Printed("error_other"))
          => ret = None /\ ~ReportPrinted)
    /\ (pc = "exit" /\ returned /\ ret = None => Printed("failed"))
    /\ ~(ErrorPrinted /\ ReportPrinted)

\* a read that failed after words had been counted
C5_Witness ==
    /\ pc = "exit" /\ returned /\ ret = None
    /\ word_counts # <<>>
    /\ Printed("error_decode")

\* C6: with ignore_common set, for either value of case_sensitive, no key of the
\* mapping has a lowercase form in common_words; with it unset every word that
\* normalisation keeps is counted, in common_words or not.
C6_StopWordsFilteredCaseFolded ==
    /\ (ignore_common =>
          /\ \A w \in Keys(word_counts) : lower(w) \notin common_words
          /\ (Succeeded => \A w \in Keys(ret[1]) : lower(w) \notin common_words))
    /\ (~ignore_common /\ (pc \in {"read", "words"} \/ Succeeded) =>
          SumCounts(word_counts) =
             Cardinality({k \in 1..Len(Processed) :
                             LET cw == Normalize(Processed[k], case_sensitive)
                             IN cw # None /\ cw[1] # <<>>}))

\* case-sensitive counting met a capitalised stop word and kept another word
C6_Witness ==
    /\ pc = "exit" /\ Succeeded
    /\ ignore_common /\ case_sensitive
    /\ \E k \in 1..Len(AllTokens) :
          AllTokens[k] \notin common_words /\ lower(AllTokens[k]) \in common_words
    /\ ret[1] # <<>>

\* C7: --top or --min-count given last, without a value, is a parameter error: the
\* error is reported and the file is never opened.
C7_MissingValueIsError ==
    (MissingValue(OptTop) \/ MissingValue(OptMinCount)) =>
        /\ ~opened
        /\ (pc = "exit" => Printed("param_error"))

\* the run on the scenario text, case-insensitive, stop words ignored, no --top, no
\* --min-count, once the report is out
ScenarioRun ==
    /\ file = ScenarioText
    /\ pc = "exit" /\ Succeeded
    /\ ~case_sensitive /\ ignore_common
    /\ ~Contains(argv, OptTop) /\ ~Contains(argv, OptMinCount)

Cat == <<99, 97, 116>>
Happy == <<104, 97, 112, 112, 121>>
Mat == <<109, 97, 116>>
Sat == <<115, 97, 116>>
Was == <<119, 97, 115>>

\* C8 as stated: "the" and "on" are left out, and the table is cat 2 followed by sat,
\* mat, was and happy with 1 each, ties in alphabetical order.
C8_ScenarioAsStated ==
    ScenarioRun =>
        /\ Keys(RowsPrinted) \cap {<<116, 104, 101>>, <<111, 110>>} = {}
        /\ RowsPrinted[1] = [word |-> Cat, count |-> 2]
        /\ Items(RowsPrinted) =
              {[word |-> Cat, count |-> 2]}
              \cup {[word |-> w, count |-> 1] : w \in {Sat, Mat, Was, Happy}}
        /\ \A i \in 2..(Len(RowsPrinted) - 1) :
              StrLess(RowsPrinted[i].word, RowsPrinted[i + 1].word)

\* C8: on the scenario text, case-insensitive and with stop words ignored, "the",
\* "on" and "was" are left out and the table is cat 2, then happy, mat, sat with 1
\* each.
C8_ScenarioRanking ==
    ScenarioRun =>
        /\ RowsPrinted = << [word |-> Cat, count |-> 2], [word |-> Happy, count |-> 1],
                            [word |-> Mat, count |-> 1], [word |-> Sat, count |-> 1] >>
        /\ displayed = RowsPrinted
        /\ ret[1] = << [word |-> Cat, count |-> 2], [word |-> Sat, count |-> 1],
                       [word |-> Mat, count |-> 1], [word |-> Happy, count |-> 1] >>

C8_Witness == ScenarioRun /\ Len(RowsPrinted) = 4 /\ Printed("total")

\* C9: normalising a word that normalisation produced gives the same word, for
\* either value of case_sensitive; case-insensitive, the word holds only digits,
\* lowercase letters and underscores.
C9_NormalizeIdempotent ==
    cleaned_word # None =>
        /\ Normalize(cleaned_word[1], case_sensitive) = cleaned_word
        /\ (~case_sensitive =>
              \A i \in 1..Len(cleaned_word[1]) :
                 IsWordChar(cleaned_word[1][i]) /\ cleaned_word[1][i] \notin 65..90)

\* a case-insensitive normalisation that changed its word
C9_Witness ==
    /\ ~case_sensitive /\ cleaned_word # None
    /\ \E k \in 1..Len(AllTokens) :
          /\ AllTokens[k] # cleaned_word[1]
          /\ Normalize(AllTokens[k], case_sensitive) = cleaned_word

\* C10: while the file is counted the mapping never holds the empty string as a key,
\* every count is at least 1, and a step either leaves the mapping as it is or raises
\* one key's count by exactly 1 and leaves every other key alone; a word that
\* survives is counted, a dropped one changes nothing.
C10_CountsOnlyGrowByOne ==
    [][ /\ \A i \in 1..Len(word_counts') :
              /\ word_counts'[i].word # <<>>
              /\ word_counts'[i].count >= 1
              /\ \A j \in 1..Len(word_counts') :
                    word_counts'[j].word = word_counts'[i].word => i = j
        /\ \/ word_counts' = word_counts
           \/ \E w \in Keys(word_counts') :
                 /\ CountOf(word_counts', w) = CountOf(word_counts, w) + 1
                 /\ \A v \in (Keys(word_counts) \cup Keys(word_counts')) \ {w} :
                       CountOf(word_counts', v) = CountOf(word_counts, v)
        /\ (pc = "words" =>
              (Survives(Head(words)) <=> word_counts' # word_counts))
        /\ (pc # "words" => word_counts' = word_counts)
      ]_vars

\* a mapping with a count raised past 1 beside another key, the file still open
C10_Witness ==
    /\ pc \in {"read", "words"}
    /\ Len(word_counts) >= 2
    /\ \E i \in 1..Len(word_counts) : word_counts[i].count >= 2

====
